---- MODULE Spec2Model ----
(***************************************************************************)
(* Model of the OC05 servo driver (src/oc05.py): class OC05 over the       *)
(* PCA9685 PWM controller.  Every public method is one action.  The bus     *)
(* is modelled by the list of register writes (and the blocking delay) the *)
(* last call issued, each marked with whether the transport accepted it.   *)
(*                                                                         *)
(* Numbers: Python's "/" is true division.  Quotients are modelled as      *)
(* exact rationals <<numerator, denominator>>.  A chain of rounded float   *)
(* operations whose exact value is an integer N may end just below N, so   *)
(* int() of such a chain is the choice between N-1 and N; everywhere else  *)
(* it is the floor of the exact value.                                     *)
(***************************************************************************)
EXTENDS Integers, Sequences, FiniteSets, TLC

VARIABLES
    frequency,   \* OC05.frequency, the stored output frequency
    call,        \* the last method call and its arguments
    bus,         \* what the last call put on the bus, in order
    result,      \* how the last call ended: "ok" or the exception raised
    inited       \* history: init has been called at least once

vars == <<frequency, call, bus, result, inited>>

----------------------------------------------------------------------------
(* Bounds of the inputs *)

\* how far beyond each documented range the out-of-range inputs lie
Margin == 1

OutFreqs == {40 - Margin, 40, 45, 60, 400, 720, 1000, 1000 + Margin}
Pins     == {1 - Margin, 1, 5, 8 + Margin}
Steps    == {0 - 5 * Margin, 300, 4095 + 905 * Margin}
Degrees  == {0 - 10 * Margin, 0, 1, 80, 90, 179, 180, 180 + 20 * Margin}
Speeds   == {0 - 100, 0 - 50, 0, 50, 100}

----------------------------------------------------------------------------
(* Bit operations on non-negative integers *)

RECURSIVE BitAnd(_, _)
BitAnd(a, b) ==
    IF a = 0 \/ b = 0 THEN 0
    ELSE (IF a % 2 = 1 /\ b % 2 = 1 THEN 1 ELSE 0) + 2 * BitAnd(a \div 2, b \div 2)

RECURSIVE BitOr(_, _)
BitOr(a, b) ==
    IF a = 0 THEN b
    ELSE IF b = 0 THEN a
    ELSE (IF a % 2 = 1 \/ b % 2 = 1 THEN 1 ELSE 0) + 2 * BitOr(a \div 2, b \div 2)

----------------------------------------------------------------------------
(* Register map and mode values *)

PCA9685_PRESCALE      == 254
PCA9685_MODE_1        == 0
PCA9685_MODE_1_DEF    == 1
PCA9685_SLEEP         == BitOr(PCA9685_MODE_1_DEF, 16)
PCA9685_WAKE          == BitAnd(PCA9685_MODE_1_DEF, 239)
PCA9685_RESTART       == BitOr(PCA9685_WAKE, 128)
PCA9685_ALL_LED_ON_L  == 250
PCA9685_ALL_LED_ON_H  == 251
PCA9685_ALL_LED_OFF_L == 252
PCA9685_ALL_LED_OFF_H == 253
PinRegDistance        == 4
PCA9685_LED8_ON_L     == 38
PCA9685_LED8_ON_H     == 39
PCA9685_LED8_OFF_L    == 40
PCA9685_LED8_OFF_H    == 41

----------------------------------------------------------------------------
(* Exact rationals <<n, d>>, d > 0, in lowest terms *)

RECURSIVE GCD(_, _)
GCD(a, b) == IF b = 0 THEN a ELSE GCD(b, a % b)

Abs(n) == IF n < 0 THEN 0 - n ELSE n

Rat(n) == <<n, 1>>

RatNorm(n, d) == LET g == GCD(Abs(n), d) IN <<n \div g, d \div g>>

RatMul(a, b) ==
    LET g1 == GCD(Abs(a[1]), b[2])
        g2 == GCD(Abs(b[1]), a[2])
    IN  <<(a[1] \div g1) * (b[1] \div g2), (a[2] \div g2) * (b[2] \div g1)>>

\* a / b for b > 0
RatDiv(a, b) == RatMul(a, <<b[2], b[1]>>)

RatLcm(a, b) == (a[2] \div GCD(a[2], b[2])) * b[2]

RatAdd(a, b) ==
    LET l == RatLcm(a, b)
    IN  RatNorm(a[1] * (l \div a[2]) + b[1] * (l \div b[2]), l)

RatSub(a, b) == RatAdd(a, <<0 - b[1], b[2]>>)

RatLE(a, b) ==
    LET l == RatLcm(a, b)
    IN  a[1] * (l \div a[2]) <= b[1] * (l \div b[2])

RatMax(a, b) == IF RatLE(a, b) THEN b ELSE a
RatMin(a, b) == IF RatLE(a, b) THEN a ELSE b

\* math.floor of one correctly rounded quotient of two integers
RatFloor(a) == a[1] \div a[2]

\* int() of the result of a chain of float operations: the set of outcomes
RatTrunc(a) ==
    IF a[2] = 1 /\ a[1] >= 1 THEN {a[1] - 1, a[1]} ELSE {a[1] \div a[2]}

Max(a, b) == IF a >= b THEN a ELSE b
Min(a, b) == IF a <= b THEN a ELSE b

----------------------------------------------------------------------------
(* The bus: write_bytes(register, value) and sleep(1000) *)

Write(r, v) == [op |-> "write", reg |-> r, val |-> v, ok |-> TRUE]
Delay(t)    == [op |-> "sleep", reg |-> 0, val |-> t, ok |-> TRUE]

\* The statements of a try block run in order; the failAt-th write_bytes
\* (0: none) raises, which ends the block.
RECURSIVE Exec(_, _)
Exec(steps, failAt) ==
    IF steps = <<>> THEN <<>>
    ELSE LET s == Head(steps) IN
         IF s.op = "write"
         THEN IF failAt = 1
              THEN <<[s EXCEPT !.ok = FALSE]>>
              ELSE <<s>> \o Exec(Tail(steps), IF failAt = 0 THEN 0 ELSE failAt - 1)
         ELSE <<s>> \o Exec(Tail(steps), failAt)

\* The except clause prints and re-raises
Raised(b) == IF b # <<>> /\ ~b[Len(b)].ok THEN "BusError" ELSE "ok"

----------------------------------------------------------------------------
(* Pure helpers of OC05 *)

calcFreqPrescaler(freq) ==
    RatFloor(RatDiv(Rat(25000000), Rat(freq * 4096))) - 1

\* ((offset * 1000) / (1000 / freq) * 4096) / 10000, for freq > 0
calcFreqOffset(freq, offset) ==
    RatDiv(RatMul(RatDiv(Rat(offset * 1000), RatDiv(Rat(1000), Rat(freq))),
                  Rat(4096)),
           Rat(10000))

\* mutant: the interpolation runs from the end offset down to the start
degrees180ToPWM_Reversed(freq, degrees, offsetStart, offsetEnd) ==
    LET oEnd       == calcFreqOffset(freq, offsetEnd)
        oStart     == calcFreqOffset(freq, offsetStart)
        spread     == RatSub(oEnd, oStart)
        calcOffset == RatAdd(RatDiv(RatMul(Rat(180 - degrees), spread), Rat(180)), oStart)
    IN  RatTrunc(RatMax(oStart, RatMin(oEnd, calcOffset)))

\* the set of values int(...) can return
degrees180ToPWM(freq, degrees, offsetStart, offsetEnd) ==
    LET oEnd       == calcFreqOffset(freq, offsetEnd)
        oStart     == calcFreqOffset(freq, offsetStart)
        spread     == RatSub(oEnd, oStart)
        calcOffset == RatAdd(RatDiv(RatMul(Rat(degrees), spread), Rat(180)), oStart)
    IN  RatTrunc(RatMax(oStart, RatMin(oEnd, calcOffset)))

----------------------------------------------------------------------------
(* init *)

\* mutant: the upper limit is not applied
clampFrequency_NoUpper(outFreq) ==
    IF outFreq < 40 THEN 40 ELSE outFreq

clampFrequency(outFreq) ==
    IF outFreq > 1000 THEN 1000
    ELSE IF outFreq < 40 THEN 40
    ELSE outFreq

\* mutant: the prescaler is written before the chip is put to sleep
initSteps_PrescaleFirst(prescaler) ==
    << Write(PCA9685_PRESCALE, prescaler),
       Write(PCA9685_MODE_1, PCA9685_SLEEP),
       Write(PCA9685_LED8_ON_L, 0),
       Write(PCA9685_LED8_ON_H, 0),
       Write(PCA9685_LED8_OFF_L, 0),
       Write(PCA9685_LED8_OFF_H, 0),
       Write(PCA9685_MODE_1, PCA9685_WAKE),
       Delay(1000),
       Write(PCA9685_MODE_1, PCA9685_RESTART) >>

initSteps(prescaler) ==
    << Write(PCA9685_MODE_1, PCA9685_SLEEP),
       Write(PCA9685_PRESCALE, prescaler),
       Write(PCA9685_LED8_ON_L, 0),
       Write(PCA9685_LED8_ON_H, 0),
       Write(PCA9685_LED8_OFF_L, 0),
       Write(PCA9685_LED8_OFF_H, 0),
       Write(PCA9685_MODE_1, PCA9685_WAKE),
       Delay(1000),
       Write(PCA9685_MODE_1, PCA9685_RESTART) >>

\* mutant: the exception is swallowed and the remaining steps still run
initBus_NoAbort(freq, failAt) ==
    LET steps == initSteps(calcFreqPrescaler(freq))
        n     == IF failAt = 8 THEN 9 ELSE failAt
    IN  [i \in 1..Len(steps) |->
            IF i = n THEN [steps[i] EXCEPT !.ok = FALSE] ELSE steps[i]]

initBus(freq, failAt) == Exec(initSteps(calcFreqPrescaler(freq)), failAt)

----------------------------------------------------------------------------
(* setPinPulseRange *)

\* mutant: the upper limit is not applied
clampStep_NoUpper(step) == Max(0, step)

clampPin(pinNum) == Max(1, Min(8, pinNum))
clampStep(step)  == Max(0, Min(4095, step))
pinOffset(pinNumber) == PinRegDistance * (pinNumber - 1)

LowByte(v)  == v % 256      \* v & 0xFF
HighByte(v) == v \div 256   \* v >> 8

\* mutant: each high byte is written before its low byte
pinSteps_HighFirst(pinNum, onStep, offStep) ==
    LET off == pinOffset(clampPin(pinNum))
        on  == clampStep(onStep)
        of  == clampStep(offStep)
    IN  << Write(off + PCA9685_LED8_ON_H,  HighByte(on)),
           Write(off + PCA9685_LED8_ON_L,  LowByte(on)),
           Write(off + PCA9685_LED8_OFF_H, HighByte(of)),
           Write(off + PCA9685_LED8_OFF_L, LowByte(of)) >>

pinSteps(pinNum, onStep, offStep) ==
    LET off == pinOffset(clampPin(pinNum))
        on  == clampStep(onStep)
        of  == clampStep(offStep)
    IN  << Write(off + PCA9685_LED8_ON_L,  LowByte(on)),
           Write(off + PCA9685_LED8_ON_H,  HighByte(on)),
           Write(off + PCA9685_LED8_OFF_L, LowByte(of)),
           Write(off + PCA9685_LED8_OFF_H, HighByte(of)) >>

\* mutant: a failed write is retried and the sequence goes on
setPinPulseRangeBus_Retry(pinNum, onStep, offStep, failAt) ==
    LET steps == pinSteps(pinNum, onStep, offStep)
    IN  IF failAt = 0 THEN steps
        ELSE SubSeq(steps, 1, failAt - 1)
             \o <<[steps[failAt] EXCEPT !.ok = FALSE]>>
             \o SubSeq(steps, failAt, Len(steps))

setPinPulseRangeBus(pinNum, onStep, offStep, failAt) ==
    Exec(pinSteps(pinNum, onStep, offStep), failAt)

clampDegrees(degrees) == Max(0, Min(180, degrees))

----------------------------------------------------------------------------
(* State machine *)

\* the OFF tick a complete four-write sequence carries
OffTick(b) == b[3].val + 256 * b[4].val

Call(op, channel, arg1, arg2, failAt) ==
    [op |-> op, channel |-> channel, arg1 |-> arg1, arg2 |-> arg2, failAt |-> failAt]

\* frequency is the class attribute 0 until init stores a value
Init ==
    /\ frequency = 0
    /\ call = Call("__init__", 0, 0, 0, 0)
    /\ bus = <<>>
    /\ result = "ok"
    /\ inited = FALSE

init ==
    \E outFreq \in OutFreqs, failAt \in 0..8 :
        /\ frequency' = clampFrequency(outFreq)
        /\ bus' = initBus(frequency', failAt)
        /\ result' = Raised(bus')
        /\ call' = Call("init", 0, outFreq, 0, failAt)
        /\ inited' = TRUE

setPinPulseRange ==
    \E pinNum \in Pins, onStep \in Steps, offStep \in Steps, failAt \in 0..4 :
        /\ bus' = setPinPulseRangeBus(pinNum, onStep, offStep, failAt)
        /\ result' = Raised(bus')
        /\ call' = Call("setPinPulseRange", pinNum, onStep, offStep, failAt)
        /\ UNCHANGED <<frequency, inited>>

\* 1000 / self.frequency raises ZeroDivisionError while frequency is 0
setServoPosition ==
    \E channelNum \in Pins, degrees \in Degrees, failAt \in 0..4 :
        /\ IF frequency = 0
           THEN /\ failAt = 0
                /\ bus' = <<>>
                /\ result' = "ZeroDivisionError"
           ELSE \E pwm \in degrees180ToPWM(frequency, clampDegrees(degrees), 5, 25) :
                /\ bus' = setPinPulseRangeBus(clampPin(channelNum), 0, pwm, failAt)
                /\ result' = Raised(bus')
        /\ call' = Call("setServoPosition", channelNum, degrees, 0, failAt)
        /\ UNCHANGED <<frequency, inited>>

\* self.freqency is not an attribute of the object: the first read of it
\* raises AttributeError before anything is computed or written
setCRServoPosition ==
    \E channelNum \in Pins, speed \in Speeds :
        /\ bus' = <<>>
        /\ result' = "AttributeError"
        /\ call' = Call("setCRServoPosition", channelNum, speed, 0, 0)
        /\ UNCHANGED <<frequency, inited>>

Next == init \/ setPinPulseRange \/ setServoPosition \/ setCRServoPosition

Spec == Init /\ [][Next]_vars

----------------------------------------------------------------------------
(* Vocabulary of the properties *)

ClampTo(lo, hi, x) == IF x < lo THEN lo ELSE IF x > hi THEN hi ELSE x

IsWrite(e, r, v) == e.op = "write" /\ e.reg = r /\ e.val = v

\* t is within truncation error of num / den: num/den - 1 <= t <= num/den
WithinTrunc(t, num, den) == t * den <= num /\ num <= (t + 1) * den

\* the duty-cycle offset pct% at frequency f is DutyNum(f, pct) / 625 ticks
DutyNum(f, pct) == pct * f * 256

ServoOk == call.op = "setServoPosition" /\ result = "ok"

----------------------------------------------------------------------------
\* C1: an init call whose bus writes all succeed issues, in this order and
\* each once: MODE_1 <- SLEEP (0x11), PRESCALE (0xFE) <-
\* floor(25000000 / (f * 4096)) - 1 with f the requested frequency clamped
\* to [40,1000], four zero writes, MODE_1 <- WAKE (0x01), the blocking delay,
\* MODE_1 <- RESTART (0x81).  In every init call the prescaler is written
\* only while the last value written to MODE_1 is SLEEP, and RESTART only
\* after WAKE and the delay.
C1_InitOrder ==
    call.op = "init" =>
        LET f == ClampTo(40, 1000, call.arg1) IN
        /\ result = "ok" =>
              /\ Len(bus) = 9
              /\ \A i \in 1..9 : bus[i].ok
              /\ IsWrite(bus[1], 0, 17)
              /\ IsWrite(bus[2], 254, (25000000 \div (f * 4096)) - 1)
              /\ \A i \in 3..6 : bus[i].op = "write" /\ bus[i].val = 0
              /\ IsWrite(bus[7], 0, 1)
              /\ bus[8].op = "sleep" /\ bus[8].val >= 1000
              /\ IsWrite(bus[9], 0, 129)
        /\ \A i \in 1..Len(bus) :
              (bus[i].op = "write" /\ bus[i].reg = 254) =>
                  \E j \in 1..(i - 1) :
                      /\ IsWrite(bus[j], 0, 17) /\ bus[j].ok
                      /\ \A k \in (j + 1)..(i - 1) :
                            ~(bus[k].op = "write" /\ bus[k].reg = 0)
        /\ \A i \in 1..Len(bus) :
              IsWrite(bus[i], 0, 129) =>
                  \E j \in 1..(i - 1) : \E k \in (j + 1)..(i - 1) :
                      IsWrite(bus[j], 0, 1) /\ bus[j].ok /\ bus[k].op = "sleep"

C1_Witness ==
    /\ call.op = "init" /\ call.arg1 = 60 /\ result = "ok"
    /\ Len(bus) = 9 /\ IsWrite(bus[2], 254, 100)

\* C2: between the prescaler write and the WAKE write a successful init
\* writes 0x00 to each of the ALL_LED registers 0xFA, 0xFB, 0xFC and 0xFD.
C2_AllLedZeroed ==
    (call.op = "init" /\ result = "ok") =>
        \A r \in 250..253 : \E i \in 3..6 : IsWrite(bus[i], r, 0)

\* C3: when the k-th bus write of init fails, the call ends with the bus
\* error, the failed write is the last thing on the bus and appears once,
\* and no later step (write, delay, WAKE, RESTART) is executed.
C3_InitAbort ==
    (call.op = "init" /\ call.failAt # 0) =>
        LET k == call.failAt
            n == IF k = 8 THEN 9 ELSE k
        IN  /\ result = "BusError"
            /\ Len(bus) = n
            /\ ~bus[n].ok
            /\ \A i \in 1..(n - 1) : bus[i].ok
            /\ \A i \in 1..n : bus[i].op = (IF i = 8 THEN "sleep" ELSE "write")
            /\ bus[1].reg = 0 /\ bus[1].val = 17
            /\ n >= 2 => bus[2].reg = 254
            /\ k < 7 => \A i \in 1..n : ~IsWrite(bus[i], 0, 1)
            /\ \A i \in 1..(n - 1) : ~IsWrite(bus[i], 0, 129)

C3_Witness ==
    /\ call.op = "init" /\ call.failAt = 2 /\ result = "BusError"
    /\ Len(bus) = 2 /\ bus[2].reg = 254 /\ ~bus[2].ok

\* C4 as claimed: in every reachable state, also before init has been
\* called, the stored frequency is an integer in [40,1000].
C4_FrequencyAlwaysInRange == frequency \in 40..1000

\* C4 as amended: the stored frequency is 0 until init is first called;
\* from then on it is an integer in [40,1000], the clamped argument of the
\* last init, whether or not that init's bus writes succeeded.
C4_FrequencyAfterInit ==
    /\ ~inited => frequency = 0
    /\ inited => frequency \in 40..1000
    /\ call.op = "init" => frequency = ClampTo(40, 1000, call.arg1)

C4_Witness ==
    /\ call.op = "init" /\ call.arg1 > 1000 /\ result = "BusError"
    /\ inited /\ frequency = 1000

\* C5: a setPinPulseRange call whose writes all succeed issues exactly four
\* writes, to base, base+1, base+2, base+3 with base = 0x26 + 4*(c-1) and
\* c = pinNum clamped to [1,8], carrying on & 0xFF, on >> 8, off & 0xFF,
\* off >> 8 with on, off the arguments clamped to [0,4095]; the register
\* blocks of the channels increase strictly and do not overlap.
C5_PinWrites ==
    /\ (call.op = "setPinPulseRange" /\ result = "ok") =>
          LET c    == ClampTo(1, 8, call.channel)
              on   == ClampTo(0, 4095, call.arg1)
              off  == ClampTo(0, 4095, call.arg2)
              base == 38 + 4 * (c - 1)
              vals == <<BitAnd(on, 255), on \div 256, BitAnd(off, 255), off \div 256>>
          IN  /\ Len(bus) = 4
              /\ \A i \in 1..4 : bus[i].ok /\ IsWrite(bus[i], base + i - 1, vals[i])
    /\ \A c \in 1..7 :
          pinOffset(c) + PCA9685_LED8_OFF_H < pinOffset(c + 1) + PCA9685_LED8_ON_L

C5_Witness ==
    /\ call.op = "setPinPulseRange" /\ result = "ok"
    /\ call.channel > 8 /\ call.arg1 = 300 /\ call.arg2 > 4095
    /\ bus[1].reg = 66 /\ bus[1].val = 44 /\ bus[2].val = 1
    /\ bus[3].val = 255 /\ bus[4].val = 15

\* C6: when the k-th of the four writes of setPinPulseRange fails, called
\* directly or through setServoPosition, the call ends with the bus error,
\* the k-1 earlier writes stand as made, the failed write is the last thing
\* on the bus (no later write, no retry, nothing undone).
C6_PinAbort ==
    (call.op \in {"setPinPulseRange", "setServoPosition"} /\ call.failAt # 0) =>
        LET k    == call.failAt
            c    == ClampTo(1, 8, call.channel)
            base == 38 + 4 * (c - 1)
            on   == ClampTo(0, 4095, call.arg1)
            off  == ClampTo(0, 4095, call.arg2)
            vals == <<on % 256, on \div 256, off % 256, off \div 256>>
        IN  /\ result = "BusError"
            /\ Len(bus) = k
            /\ ~bus[k].ok
            /\ \A i \in 1..k : bus[i].op = "write" /\ bus[i].reg = base + i - 1
            /\ \A i \in 1..(k - 1) :
                  /\ bus[i].ok
                  /\ call.op = "setPinPulseRange" => bus[i].val = vals[i]
                  /\ (call.op = "setServoPosition" /\ i <= 2) => bus[i].val = 0

C6_Witness ==
    /\ call.op = "setServoPosition" /\ call.failAt = 3 /\ result = "BusError"
    /\ Len(bus) = 3 /\ bus[1].ok /\ bus[2].ok /\ ~bus[3].ok

\* what the last successful setServoPosition call wrote for its end points:
\* ON = 0, degrees <= 0 at the 5% offset, degrees >= 180 at the 25% offset
ServoEndpoints(capped) ==
    ServoOk =>
        LET d   == ClampTo(0, 180, call.arg1)
            off == OffTick(bus)
            n5  == DutyNum(frequency, 5)
            n25 == DutyNum(frequency, 25)
        IN  /\ Len(bus) = 4
            /\ bus[1].val = 0 /\ bus[2].val = 0
            /\ d = 0 => WithinTrunc(off, n5, 625)
            /\ d = 180 =>
                  \/ WithinTrunc(off, n25, 625)
                  \/ capped /\ off = 4095 /\ n25 >= 4095 * 625

\* a call with degrees outside [0,180] puts on the bus what a call with the
\* nearer limit can put there
ServoOutOfRange ==
    ServoOk =>
        LET AsLimit(lim) ==
                bus \in { setPinPulseRangeBus(call.channel, 0, p, 0) :
                            p \in degrees180ToPWM(frequency, lim, 5, 25) }
        IN  /\ call.arg1 < 0 => AsLimit(0)
            /\ call.arg1 > 180 => AsLimit(180)

\* two successive successful setServoPosition calls at one frequency: more
\* degrees never give a smaller OFF tick
ServoMonotonic ==
    (/\ ServoOk /\ ServoOk' /\ frequency' = frequency
     /\ ClampTo(0, 180, call.arg1) < ClampTo(0, 180, call'.arg1))
        => OffTick(bus) <= OffTick(bus')

\* C7 as claimed: at every frequency in [40,1000] the OFF tick written by
\* setServoPosition does not decrease as degrees increase (ON is 0),
\* degrees = 0 gives the 5% offset and degrees = 180 the 25% offset
\* calcFreqOffset(freq, 25), within truncation error; degrees below 0 behave
\* as 0 and degrees above 180 as 180.
C7_ServoAsClaimed ==
    [](ServoEndpoints(FALSE) /\ ServoOutOfRange) /\ [][ServoMonotonic]_vars

\* C7 as amended: the same, except that the OFF tick written for degrees =
\* 180 is the 25% offset within truncation error capped at 4095, the limit
\* setPinPulseRange clamps to (the 25% offset exceeds 4095 from 400 Hz on).
C7_ServoMonotonicCapped ==
    [](ServoEndpoints(TRUE) /\ ServoOutOfRange) /\ [][ServoMonotonic]_vars

C7_Witness ==
    /\ ServoOk /\ frequency = 720 /\ call.arg1 > 180
    /\ OffTick(bus) = 4095 /\ bus[1].val = 0 /\ bus[2].val = 0

\* C8: after init, setCRServoPosition(ch, 0) completes and writes ON = 0 and
\* OFF = the 15% offset of the stored frequency to channel ch.
C8_ZeroSpeedIsMid ==
    (inited /\ call.op = "setCRServoPosition" /\ call.arg1 = 0) =>
        /\ result = "ok"
        /\ Len(bus) = 4
        /\ bus[1].reg = 38 + 4 * (ClampTo(1, 8, call.channel) - 1)
        /\ bus[1].val = 0 /\ bus[2].val = 0
        /\ \/ WithinTrunc(OffTick(bus), DutyNum(frequency, 15), 625)
           \/ OffTick(bus) = 4095 /\ DutyNum(frequency, 15) >= 4095 * 625

\* C9: after init, setCRServoPosition with speed s in 1..100 writes an OFF
\* tick above the 15% offset and with speed -s one below it, at the
\* distance s*(end-mid)/100 = s*(mid-start)/100 = s/100 of the 10% offset.
C9_Antisymmetric ==
    (inited /\ call.op = "setCRServoPosition" /\ call.arg1 # 0) =>
        LET s    == Abs(call.arg1)
            mid  == DutyNum(frequency, 15) * 100
            dist == s * DutyNum(frequency, 10)
            off  == OffTick(bus)
        IN  /\ result = "ok"
            /\ Len(bus) = 4
            /\ bus[1].val = 0 /\ bus[2].val = 0
            /\ \/ off = 4095
               \/ /\ call.arg1 > 0
                  /\ WithinTrunc(off, mid + dist, 62500)
               \/ /\ call.arg1 < 0
                  /\ WithinTrunc(off, mid - dist, 62500)

\* C10: every value handed to the bus write primitive fits in one byte; the
\* prescaler init writes lies in [5,151]; the high byte of every ON/OFF
\* tick written by setPinPulseRange or setServoPosition is at most 15.
C10_ByteRange ==
    \A i \in 1..Len(bus) :
        bus[i].op = "write" =>
            /\ bus[i].reg \in 0..255
            /\ bus[i].val \in 0..255
            /\ bus[i].reg = 254 => bus[i].val \in 5..151
            /\ (call.op \in {"setPinPulseRange", "setServoPosition"} /\ i \in {2, 4})
                  => bus[i].val <= 15

C10_Witness ==
    /\ ServoOk /\ frequency = 1000 /\ call.arg1 = 180
    /\ bus[3].val = 255 /\ bus[4].val = 15

====
